---------------------------- MODULE Spec2Model ----------------------------
(***************************************************************************)
(* Model of src/main.py: the news-feed ingestion script (create_index,     *)
(* get_rss_data, get_non_existent_articles, download_articles,             *)
(* store_record, the queries, shingle and minhash).                        *)
(*                                                                         *)
(* A text is a sequence of one-character strings.  The document store is   *)
(* the sequence of the documents indexed so far, in insertion order.       *)
(***************************************************************************)
EXTENDS Integers, Sequences, FiniteSets, TLC

VARIABLES
    pc,              \* main: the call main() is about to make; "done"/"crashed"
    runs,            \* number of runs of main started so far
    indexExists,     \* the store: whether index INDEX_NAME exists
    store,           \* the store: documents of the index, in insertion order
    store0,          \* the store as it was when the current run started
    calls,           \* functions called so far in the current run
    raised_by,       \* function whose exception ended the run, or "none"
    exists_outcome,  \* create_index: outcome of es.indices.exists
    create_outcome,  \* create_index: outcome of es.indices.create
    created,         \* main: created
    rss_data,        \* main: rss_data
    existent_links,  \* get_non_existent_articles: existent_links
    articles_links,  \* main: articles_links
    fetch_outcome,   \* download_articles: what get(link.link) did, per link
    articles,        \* main: articles
    handed,          \* main: articles handed to store_record in this run
    jaccard,         \* minhash: matching bands of (mh1, mh2), or -1 before
    H,               \* the MinHash hash family: H[i][s]
    set1, set2,      \* minhash: set1, set2
    fed1, fed2,      \* minhash: elements of set1, set2 fed so far
    mh1, mh2,        \* minhash: hashvalues of mh1, mh2
    sh_text, sh_k,   \* shingle: arguments
    sh_out           \* shingle: <<"none">>, or <<"returned", list>>

vars == <<pc, runs, indexExists, store, store0, calls, raised_by,
          exists_outcome, create_outcome, created, rss_data, existent_links,
          articles_links, fetch_outcome, articles, handed, jaccard, H,
          set1, set2, fed1, fed2, mh1, mh2, sh_text, sh_k, sh_out>>

mainVars == <<runs, indexExists, store, store0, calls, raised_by,
              exists_outcome, create_outcome, created, rss_data,
              existent_links, articles_links, fetch_outcome, articles,
              handed>>

mhVars == <<set1, set2, fed1, fed2, mh1, mh2>>

shVars == <<sh_text, sh_k, sh_out>>

-----------------------------------------------------------------------------
(* Bounds of the model *)

MaxLen == 5       \* shingle: longest text drawn, in characters
MaxK == 3         \* shingle: k is drawn from -MaxK .. MaxK
MaxFeed == 2      \* longest feed a run reads
MaxRuns == 2      \* runs of main
MaxInitStore == 1 \* documents already stored before the first run
NumPerm == 2      \* bands of a signature
HashMax == 1      \* hash range is 0 .. HashMax
MaxShingles == 2  \* longest shingle list fed to a MinHash

(* Program constants *)

LAST_ARTICLES == 100
ShingleWidth == 3
MinhashHits == 2

-----------------------------------------------------------------------------
(* Sequences and texts *)

Range(s) == {s[j] : j \in 1..Len(s)}

SeqsUpTo(S, n) == UNION {[1..m -> S] : m \in 0..n}

Min2(a, b) == IF a <= b THEN a ELSE b

SetMin(S) == CHOOSE m \in S : \A x \in S : m <= x

RECURSIVE Concat(_)
Concat(ss) == IF ss = <<>> THEN <<>> ELSE Head(ss) \o Concat(Tail(ss))

\* string.punctuation (all of it but the backquote, which a TLA+ string
\* cannot hold; no text of the model contains one)
Punctuation ==
    {"!", "\"", "#", "$", "%", "&", "'", "(", ")", "*", "+", ",", "-", ".",
     "/", ":", ";", "<", "=", ">", "?", "@", "[", "\\", "]", "^", "_",
     "{", "|", "}", "~"}

\* text.translate(str.maketrans('', '', string.punctuation))
StripPunctuation(text) == SelectSeq(text, LAMBDA c : c \notin Punctuation)

\* text.split(' '): a token ends at every single space; empty tokens are kept
RECURSIVE SplitFrom(_, _, _)
SplitFrom(text, j, cur) ==
    IF j > Len(text) THEN <<cur>>
    ELSE IF text[j] = " " THEN <<cur>> \o SplitFrom(text, j + 1, <<>>)
    ELSE SplitFrom(text, j + 1, Append(cur, text[j]))

Split(text) == SplitFrom(text, 1, <<>>)

\* a[lo:hi] on a list of n elements: a negative index counts from the end,
\* both are clipped to 0 .. n, and the slice is empty when lo >= hi
PyIndex(n, x) == IF x < 0 THEN (IF n + x < 0 THEN 0 ELSE n + x)
                 ELSE (IF x > n THEN n ELSE x)

PySlice(a, lo, hi) ==
    LET l == PyIndex(Len(a), lo)
        h == PyIndex(Len(a), hi)
    IN  IF l >= h THEN <<>> ELSE SubSeq(a, l + 1, h)

\* range(m)
PyRangeLen(m) == IF m < 0 THEN 0 ELSE m

-----------------------------------------------------------------------------
(* shingle(text, k) *)

\* variant: the loop also takes the last window
ShingleCountOneMore(n, k) == PyRangeLen(n - k + 1)

\* number of iterations of: for i in range(len(text_for_shingle) - k)
ShingleCount(n, k) == PyRangeLen(n - k)

shingle(text, k) ==
    LET text_for_shingle == Split(StripPunctuation(text))
    IN  [j \in 1..ShingleCount(Len(text_for_shingle), k) |->
            Concat(PySlice(text_for_shingle, j - 1, j - 1 + k))]

ShingleAlphabet == {"a", "b", " ", "."}

ShingleTexts == SeqsUpTo(ShingleAlphabet, MaxLen)


-----------------------------------------------------------------------------
(* MinHash: signatures of NumPerm bands over the hash range 0 .. HashMax *)

Bands == 1..NumPerm

HashRange == 0..HashMax

\* MinHash(): every band starts at the hash-range maximum
MinHashInit == [i \in Bands |-> HashMax]

\* mh.update(s): the running minimum of every band
MinHashUpdate(hv, s, h) == [i \in Bands |-> Min2(h[i][s], hv[i])]

\* mh1.jaccard(mh2): the number of matching bands; the estimate printed is
\* this count divided by NumPerm
JaccardCount(a, b) == Cardinality({i \in Bands : a[i] = b[i]})

\* variant: a new MinHash is made for every element
FeedStepFresh(mh, set, fed, h) == MinHashUpdate(MinHashInit, set[fed + 1], h)

\* one iteration of: for el in set1: mh1.update(el.encode('utf8'))
FeedStep(mh, set, fed, h) == MinHashUpdate(mh, set[fed + 1], h)

\* the whole loop, from the element after the first `fed` ones
RECURSIVE FeedAll(_, _, _, _)
FeedAll(mh, set, fed, h) ==
    IF fed >= Len(set) THEN mh
    ELSE FeedAll(FeedStep(mh, set, fed, h), set, fed + 1, h)

\* the shingles the MinHash steps are explored on
MHShingles == {<<"a", "b", "c">>, <<"b", "c", "d">>}

-----------------------------------------------------------------------------
(* The feed, the fetched pages and the stored documents *)

Items ==
    {[title |-> "t1", description |-> "d1", link |-> "a", category |-> "c1"],
     [title |-> "t2", description |-> "d2", link |-> "b", category |-> "c2"]}

\* soup.findAll('p') of a fetched page, as the texts of its paragraphs
PageSets ==
    {<<>>,
     << <<"a", " ", "b", " ", "c">>, <<" ", "d", ".", " ", "e">> >>}

\* what get(link.link) does: a response with a status code, or an exception
FetchOutcomes ==
    {[kind |-> "response", status_code |-> 200, pages |-> p] : p \in PageSets}
    \cup {[kind |-> "response", status_code |-> 404, pages |-> <<>>]}
    \cup {[kind |-> "raise", status_code |-> 0, pages |-> <<>>]}

make_item_data(rss_item, article) ==
    [title |-> rss_item.title, description |-> rss_item.description,
     link |-> rss_item.link, category |-> rss_item.category,
     article |-> article]

StoredDocs == {make_item_data(it, Concat(p)) : it \in Items, p \in PageSets}

\* the shingles of the article texts of the model
MainShingles == UNION {Range(shingle(d.article, ShingleWidth)) : d \in StoredDocs}

\* stand-in for the 32-bit hash of a string: the sum of its letters' ranks
CharCode(c) ==
    CASE c = "a" -> 1 [] c = "b" -> 2 [] c = "c" -> 3 [] c = "d" -> 4
      [] c = "e" -> 5 [] OTHER -> 6

RECURSIVE StringHash(_)
StringHash(s) == IF s = <<>> THEN 0 ELSE CharCode(Head(s)) + StringHash(Tail(s))

\* the family used by the runs of main: band i permutes the hash as
\* (a * hv + b) mod the hash range, with a = b = i
RefHash ==
    [i \in Bands |-> [s \in MainShingles |->
        (i * StringHash(s) + i) % (HashMax + 1)]]

-----------------------------------------------------------------------------
(* The store *)

\* variant: the link is the document id, so a stored link is overwritten
EsIndexUpsert(docs, record) ==
    IF \E j \in 1..Len(docs) : docs[j].link = record.link
    THEN [j \in 1..Len(docs) |->
            IF docs[j].link = record.link THEN record ELSE docs[j]]
    ELSE Append(docs, record)

\* es.index(index=INDEX_NAME, body=record): no id is given, so the store
\* makes a new document
EsIndex(docs, record) == Append(docs, record)

\* es.search(... 'size': size, 'query': {'match_all': {}}): the possible hit
\* lists; which documents come back when there are more than `size` is the
\* store's choice
EsSearchHits(docs, size) ==
    LET n == Min2(size, Len(docs))
        Pick(S) == [j \in 1..n |->
            docs[CHOOSE x \in S : Cardinality({y \in S : y <= x}) = j]]
    IN  {Pick(S) : S \in {T \in SUBSET (1..Len(docs)) : Cardinality(T) = n}}

-----------------------------------------------------------------------------
(* get_non_existent_articles *)

\* existent_links.append(hit["_source"]["link"]) for every hit
HitLinks(hits) == [j \in 1..Len(hits) |-> hits[j].link]

\* variant: a kept link counts as existing for the candidates after it
RECURSIVE FilterNewOnce(_, _, _)
FilterNewOnce(rss, existent, j) ==
    IF j > Len(rss) THEN <<>>
    ELSE IF rss[j].link \notin Range(existent)
         THEN <<rss[j]>>
              \o FilterNewOnce(rss, Append(existent, rss[j].link), j + 1)
         ELSE FilterNewOnce(rss, existent, j + 1)

FilterNewDedup(rss, existent) == FilterNewOnce(rss, existent, 1)

\* for data in rss_data: if data.link not in existent_links: append
RECURSIVE FilterNewFrom(_, _, _)
FilterNewFrom(rss, existent, j) ==
    IF j > Len(rss) THEN <<>>
    ELSE IF rss[j].link \notin Range(existent)
         THEN <<rss[j]>> \o FilterNewFrom(rss, existent, j + 1)
         ELSE FilterNewFrom(rss, existent, j + 1)

FilterNew(rss, existent) == FilterNewFrom(rss, existent, 1)

-----------------------------------------------------------------------------
(* download_articles *)

\* the loop over data_links from position j on, with `acc` the articles so
\* far: <<"returned", articles>>, or <<"raised">> when a get() raised
RECURSIVE DownloadFrom(_, _, _, _)
DownloadFrom(data_links, outcome, j, acc) ==
    IF j > Len(data_links) THEN <<"returned", acc>>
    ELSE IF outcome[j].kind = "raise" THEN <<"raised">>
    ELSE IF outcome[j].status_code = 200
         THEN DownloadFrom(data_links, outcome, j + 1,
                  Append(acc, make_item_data(data_links[j],
                                             Concat(outcome[j].pages))))
         ELSE DownloadFrom(data_links, outcome, j + 1, acc)

download_articles(data_links, outcome) ==
    DownloadFrom(data_links, outcome, 1, <<>>)

-----------------------------------------------------------------------------
(* create_index and the order of the calls of main *)

\* variant: created = True sits inside the if
CreateIndexReturnInsideIf(eo, co) == eo = "false" /\ co = "ok"

\* created = False; try: if not exists: create; created = True;
\* except: print; finally: return created
CreateIndexReturn(eo, co) ==
    IF eo = "raise" THEN FALSE
    ELSE IF eo = "false" /\ co = "raise" THEN FALSE
    ELSE TRUE

\* variant: the loop stops one article short
StoreLoopNextShort(n, arts) ==
    IF n + 1 < Len(arts) THEN "store_record" ELSE "query_by_key"

\* for article in articles: store_record(article), then query_by_key('')
StoreLoopNext(n, arts) ==
    IF n < Len(arts) THEN "store_record" ELSE "query_by_key"


-----------------------------------------------------------------------------
(* Initial states *)

DistinctLinks(docs) ==
    \A x, y \in 1..Len(docs) : x # y => docs[x].link # docs[y].link

\* what the index may hold before the first run
InitStores == {d \in SeqsUpTo(StoredDocs, MaxInitStore) : DistinctLinks(d)}

LocalsReset ==
    /\ calls' = {}
    /\ raised_by' = "none"
    /\ exists_outcome' = "none"
    /\ create_outcome' = "none"
    /\ created' = FALSE
    /\ rss_data' = <<>>
    /\ existent_links' = <<>>
    /\ articles_links' = <<>>
    /\ fetch_outcome' = <<>>
    /\ articles' = <<>>
    /\ handed' = 0
    /\ jaccard' = -1
    /\ set1' = <<>>
    /\ set2' = <<>>
    /\ fed1' = 0
    /\ fed2' = 0
    /\ mh1' = MinHashInit
    /\ mh2' = MinHashInit

LocalsInit ==
    /\ calls = {}
    /\ raised_by = "none"
    /\ exists_outcome = "none"
    /\ create_outcome = "none"
    /\ created = FALSE
    /\ rss_data = <<>>
    /\ existent_links = <<>>
    /\ articles_links = <<>>
    /\ fetch_outcome = <<>>
    /\ articles = <<>>
    /\ handed = 0
    /\ jaccard = -1

MhIdle ==
    /\ set1 = <<>>
    /\ set2 = <<>>
    /\ fed1 = 0
    /\ fed2 = 0
    /\ mh1 = MinHashInit
    /\ mh2 = MinHashInit

ShIdle ==
    /\ sh_text = <<>>
    /\ sh_k = ShingleWidth
    /\ sh_out = <<"none">>

StoreIdle ==
    /\ runs = 0
    /\ indexExists = FALSE
    /\ store = <<>>
    /\ store0 = <<>>

\* main() is about to start, against a store that may already hold documents
Init ==
    /\ pc = "create_index"
    /\ runs = 1
    /\ indexExists \in BOOLEAN
    /\ store \in (IF indexExists THEN InitStores ELSE {<<>>})
    /\ store0 = store
    /\ LocalsInit
    /\ H = RefHash
    /\ MhIdle
    /\ ShIdle

\* shingle(text, k) is about to be called
InitShingle ==
    /\ pc = "shingle"
    /\ sh_text \in ShingleTexts
    /\ sh_k \in (-MaxK)..MaxK
    /\ sh_out = <<"none">>
    /\ StoreIdle
    /\ LocalsInit
    /\ H = RefHash
    /\ MhIdle

\* minhash() has computed set1 and set2 and made mh1 and mh2
InitMinHash ==
    /\ pc = "minhash_feed"
    /\ H \in [Bands -> [MHShingles -> HashRange]]
    /\ set1 \in SeqsUpTo(MHShingles, MaxShingles)
    /\ set2 \in SeqsUpTo(MHShingles, MaxShingles)
    /\ fed1 = 0
    /\ fed2 = 0
    /\ mh1 = MinHashInit
    /\ mh2 = MinHashInit
    /\ StoreIdle
    /\ LocalsInit
    /\ ShIdle

-----------------------------------------------------------------------------
(* The calls of main, in the order main makes them *)

Raise(f) ==
    /\ pc' = "crashed"
    /\ raised_by' = f

create_index ==
    /\ pc = "create_index"
    /\ \E eo \in {"raise", IF indexExists THEN "true" ELSE "false"} :
       \E co \in (IF eo = "false" THEN {"ok", "raise"} ELSE {"none"}) :
          /\ exists_outcome' = eo
          /\ create_outcome' = co
          /\ indexExists' = (indexExists \/ co = "ok")
          /\ created' = CreateIndexReturn(eo, co)
          \* if not created: return
          /\ pc' = IF created' THEN "get_rss_data" ELSE "done"
    /\ calls' = calls \cup {"create_index"}
    /\ UNCHANGED <<runs, store, store0, raised_by, rss_data, existent_links,
                   articles_links, fetch_outcome, articles, handed, jaccard,
                   H, mhVars, shVars>>

get_rss_data ==
    /\ pc = "get_rss_data"
    /\ calls' = calls \cup {"get_rss_data"}
    /\ \/ \E feed \in SeqsUpTo(Items, MaxFeed) :
             /\ rss_data' = feed
             /\ pc' = "get_non_existent_articles"
             /\ UNCHANGED raised_by
       \/ /\ Raise("get_rss_data")
          /\ UNCHANGED rss_data
    /\ UNCHANGED <<runs, indexExists, store, store0, exists_outcome,
                   create_outcome, created, existent_links, articles_links,
                   fetch_outcome, articles, handed, jaccard, H, mhVars,
                   shVars>>

get_non_existent_articles ==
    /\ pc = "get_non_existent_articles"
    /\ calls' = calls \cup {"get_non_existent_articles"}
    /\ \/ \E hits \in EsSearchHits(store, LAST_ARTICLES) :
             /\ existent_links' = HitLinks(hits)
             /\ articles_links' = FilterNew(rss_data, HitLinks(hits))
             /\ pc' = "download_articles"
             /\ UNCHANGED raised_by
       \/ /\ Raise("get_non_existent_articles")
          /\ UNCHANGED <<existent_links, articles_links>>
    /\ UNCHANGED <<runs, indexExists, store, store0, exists_outcome,
                   create_outcome, created, rss_data, fetch_outcome, articles,
                   handed, jaccard, H, mhVars, shVars>>

download_articles_call ==
    /\ pc = "download_articles"
    /\ calls' = calls \cup {"download_articles"}
    /\ \E outcome \in [1..Len(articles_links) -> FetchOutcomes] :
          LET res == download_articles(articles_links, outcome)
          IN  /\ fetch_outcome' = outcome
              /\ IF res[1] = "raised"
                 THEN /\ Raise("download_articles")
                      /\ UNCHANGED articles
                 ELSE /\ articles' = res[2]
                      /\ pc' = StoreLoopNext(0, res[2])
                      /\ UNCHANGED raised_by
    /\ UNCHANGED <<runs, indexExists, store, store0, exists_outcome,
                   create_outcome, created, rss_data, existent_links,
                   articles_links, handed, jaccard, H, mhVars, shVars>>

\* one iteration of the loop of main; store_record returns is_stored and
\* never raises
store_record ==
    /\ pc = "store_record"
    /\ calls' = calls \cup {"store_record"}
    /\ \E is_stored \in BOOLEAN :
          store' = IF is_stored THEN EsIndex(store, articles[handed + 1])
                   ELSE store
    /\ handed' = handed + 1
    /\ pc' = StoreLoopNext(handed + 1, articles)
    /\ UNCHANGED <<runs, indexExists, store0, raised_by, exists_outcome,
                   create_outcome, created, rss_data, existent_links,
                   articles_links, fetch_outcome, articles, jaccard, H,
                   mhVars, shVars>>

\* the three searches that only print what they find
query_by_key ==
    /\ pc = "query_by_key"
    /\ calls' = calls \cup {"query_by_key"}
    /\ \/ pc' = "term_aggregation" /\ UNCHANGED raised_by
       \/ Raise("query_by_key")
    /\ UNCHANGED <<runs, indexExists, store, store0, exists_outcome,
                   create_outcome, created, rss_data, existent_links,
                   articles_links, fetch_outcome, articles, handed, jaccard,
                   H, mhVars, shVars>>

term_aggregation ==
    /\ pc = "term_aggregation"
    /\ calls' = calls \cup {"term_aggregation"}
    /\ \/ pc' = "cardinality_aggregation" /\ UNCHANGED raised_by
       \/ Raise("term_aggregation")
    /\ UNCHANGED <<runs, indexExists, store, store0, exists_outcome,
                   create_outcome, created, rss_data, existent_links,
                   articles_links, fetch_outcome, articles, handed, jaccard,
                   H, mhVars, shVars>>

cardinality_aggregation ==
    /\ pc = "cardinality_aggregation"
    /\ calls' = calls \cup {"cardinality_aggregation"}
    /\ \/ pc' = "minhash" /\ UNCHANGED raised_by
       \/ Raise("cardinality_aggregation")
    /\ UNCHANGED <<runs, indexExists, store, store0, exists_outcome,
                   create_outcome, created, rss_data, existent_links,
                   articles_links, fetch_outcome, articles, handed, jaccard,
                   H, mhVars, shVars>>

\* minhash(): the search, the two shingle lists, the two signatures and the
\* estimate; hits[0] or hits[1] raises when fewer than two documents are hit
minhash ==
    /\ pc = "minhash"
    /\ calls' = calls \cup {"minhash"}
    /\ \/ \E hits \in EsSearchHits(store, MinhashHits) :
             IF Len(hits) < MinhashHits
             THEN /\ Raise("minhash")
                  /\ UNCHANGED <<jaccard, mhVars>>
             ELSE LET s1 == shingle(hits[1].article, ShingleWidth)
                      s2 == shingle(hits[2].article, ShingleWidth)
                      m1 == FeedAll(MinHashInit, s1, 0, H)
                      m2 == FeedAll(MinHashInit, s2, 0, H)
                  IN  /\ set1' = s1
                      /\ set2' = s2
                      /\ fed1' = Len(s1)
                      /\ fed2' = Len(s2)
                      /\ mh1' = m1
                      /\ mh2' = m2
                      /\ jaccard' = JaccardCount(m1, m2)
                      /\ pc' = "done"
                      /\ UNCHANGED raised_by
       \/ /\ Raise("minhash")
          /\ UNCHANGED <<jaccard, mhVars>>
    /\ UNCHANGED <<runs, indexExists, store, store0, exists_outcome,
                   create_outcome, created, rss_data, existent_links,
                   articles_links, fetch_outcome, articles, handed, H,
                   shVars>>

\* the script is run again
run_again ==
    /\ pc \in {"done", "crashed"}
    /\ runs < MaxRuns
    /\ runs' = runs + 1
    /\ pc' = "create_index"
    /\ store0' = store
    /\ LocalsReset
    /\ UNCHANGED <<indexExists, store, H, shVars>>

Next ==
    \/ create_index
    \/ get_rss_data
    \/ get_non_existent_articles
    \/ download_articles_call
    \/ store_record
    \/ query_by_key
    \/ term_aggregation
    \/ cardinality_aggregation
    \/ minhash
    \/ run_again

Spec == Init /\ [][Next]_vars

-----------------------------------------------------------------------------
(* shingle on its own *)

shingle_call ==
    /\ pc = "shingle"
    /\ sh_out' = <<"returned", shingle(sh_text, sh_k)>>
    /\ pc' = "done"
    /\ UNCHANGED <<mainVars, jaccard, H, mhVars, sh_text, sh_k>>

NextShingle == shingle_call

SpecShingle == InitShingle /\ [][NextShingle]_vars

-----------------------------------------------------------------------------
(* The signature loops of minhash, one update at a time *)

update_mh1 ==
    /\ pc = "minhash_feed"
    /\ fed1 < Len(set1)
    /\ mh1' = FeedStep(mh1, set1, fed1, H)
    /\ fed1' = fed1 + 1
    /\ UNCHANGED <<pc, mainVars, jaccard, H, set1, set2, fed2, mh2, shVars>>

update_mh2 ==
    /\ pc = "minhash_feed"
    /\ fed1 = Len(set1)
    /\ fed2 < Len(set2)
    /\ mh2' = FeedStep(mh2, set2, fed2, H)
    /\ fed2' = fed2 + 1
    /\ UNCHANGED <<pc, mainVars, jaccard, H, set1, set2, fed1, mh1, shVars>>

print_jaccard ==
    /\ pc = "minhash_feed"
    /\ fed1 = Len(set1)
    /\ fed2 = Len(set2)
    /\ jaccard' = JaccardCount(mh1, mh2)
    /\ pc' = "done"
    /\ UNCHANGED <<mainVars, H, mhVars, shVars>>

NextMinHash ==
    \/ update_mh1
    \/ update_mh2
    \/ print_jaccard

SpecMinHash == InitMinHash /\ [][NextMinHash]_vars


-----------------------------------------------------------------------------
(* Properties *)

\* positions of the candidates whose link is not among the existing links
KeptPositions(rss, existent) ==
    {j \in 1..Len(rss) : rss[j].link \notin Range(existent)}

\* C1: once get_non_existent_articles has returned, its result is exactly the
\* sub-sequence of rss_data whose link is not among the existing links: it
\* has one element per such candidate, none for any other, and the k-th
\* such candidate of the input is the k-th element of the result.
C1_FilterExact ==
    ("get_non_existent_articles" \in calls
        /\ raised_by # "get_non_existent_articles")
    => LET K == KeptPositions(rss_data, existent_links)
       IN  /\ Len(articles_links) = Cardinality(K)
           /\ \A j \in K :
                 articles_links[Cardinality({x \in K : x <= j})] = rss_data[j]
           /\ \A j \in 1..Len(articles_links) :
                 articles_links[j].link \notin Range(existent_links)

\* the filter ran on two candidates, dropped the first and kept the second
C1_Witness ==
    /\ "get_non_existent_articles" \in calls
    /\ raised_by # "get_non_existent_articles"
    /\ Len(rss_data) = 2
    /\ rss_data[1].link \in Range(existent_links)
    /\ articles_links = <<rss_data[2]>>

\* C2: no two stored documents ever share the same link.
C2_NoSharedLink == DistinctLinks(store)

\* the tokens of a text: punctuation stripped, split on single spaces
Tokens(text) == Split(StripPunctuation(text))

\* C3: for k >= 1 and n tokens (one more than the spaces left after the
\* punctuation is stripped), shingle(text, k) is the list of the joins of
\* the k-token windows starting at indices 0 .. n-k-1 and of nothing else:
\* it has n-k members when n > k and none when n <= k, and the window
\* starting at n-k is not a member of it by position.
C3_ShingleWindows ==
    (sh_out[1] = "returned" /\ sh_k >= 1)
    => LET tokens == Tokens(sh_text)
           n == Len(tokens)
           out == sh_out[2]
       IN  /\ n = 1 + Cardinality({j \in 1..Len(StripPunctuation(sh_text)) :
                                      StripPunctuation(sh_text)[j] = " "})
           /\ Len(out) = (IF n > sh_k THEN n - sh_k ELSE 0)
           /\ \A w \in 0..(n - sh_k - 1) :
                 out[w + 1] = Concat(SubSeq(tokens, w + 1, w + sh_k))
           /\ n <= sh_k => out = <<>>

\* a text of three tokens and k = 2: one window is emitted, the last is not
C3_Witness ==
    /\ sh_out[1] = "returned"
    /\ sh_k = 2
    /\ Tokens(sh_text) = << <<"a">>, <<"b">>, <<"a">> >>
    /\ sh_out[2] = << <<"a", "b">> >>

\* C4: a call of shingle with k < 1 fails and returns no shingles.
C4_RejectsInvalidWidth ==
    (sh_out[1] # "none" /\ sh_k < 1) => sh_out[1] = "raised"

\* the minimum of band i over the first `fed` elements of a shingle list
FedMin(set, fed, i) ==
    IF fed = 0 THEN HashMax ELSE SetMin({H[i][set[j]] : j \in 1..fed})

\* C5: at every point of the two loops each band of a signature holds the
\* minimum of its hash over the shingles fed so far, and two lists with the
\* same elements, in any order and with any repetition, end with the same
\* signature.
C5_OrderIndependent ==
    pc \in {"minhash_feed", "done"}
    => /\ \A i \in Bands : /\ mh1[i] = FedMin(set1, fed1, i)
                           /\ mh2[i] = FedMin(set2, fed2, i)
       /\ (fed1 = Len(set1) /\ fed2 = Len(set2) /\ Range(set1) = Range(set2))
          => mh1 = mh2

\* two different shingles with different hashes, fed in the two orders
C5_Witness ==
    /\ pc = "done"
    /\ Len(set1) = 2
    /\ set1[1] # set1[2]
    /\ set2 = <<set1[2], set1[1]>>
    /\ \E i \in Bands : H[i][set1[1]] < H[i][set1[2]]
    /\ \E i \in Bands : H[i][set1[2]] < H[i][set1[1]]
    /\ mh1 = mh2

\* C6: when exactly one of the two shingle lists is empty the estimate is
\* 0.0, whatever the hash values; identical signatures give 1.0.
C6_EmptyAgainstNonEmpty ==
    pc = "done"
    => /\ ((set1 = <<>>) # (set2 = <<>>)) => jaccard = 0
       /\ mh1 = mh2 => jaccard = NumPerm

\* the records download_articles is to return: one per link fetched with
\* status 200, in the order of the links
RECURSIVE FetchedRecords(_, _, _)
FetchedRecords(links, outcome, j) ==
    IF j > Len(links) THEN <<>>
    ELSE (IF outcome[j].kind = "response" /\ outcome[j].status_code = 200
          THEN <<make_item_data(links[j], Concat(outcome[j].pages))>>
          ELSE <<>>)
         \o FetchedRecords(links, outcome, j + 1)

\* C7: once download_articles has been called, the records it has yielded
\* to main are exactly one for each link whose fetch succeeded, in input
\* order, whatever the fetches of the other links did.
C7_FailedFetchYieldsNoRecord ==
    "download_articles" \in calls
    => articles = FetchedRecords(articles_links, fetch_outcome, 1)

\* C8: every step keeps the stored documents as they are; the only step
\* that changes the collection is a store_record, which adds the record it
\* was given at the end.
C8_AppendOnly ==
    [][/\ Len(store') >= Len(store)
       /\ SubSeq(store', 1, Len(store)) = store
       /\ store' # store
          => /\ pc = "store_record"
             /\ store' = Append(store, articles[handed + 1])]_vars

\* a second run has stored a document beside those of the run before it and
\* has finished its queries and its similarity pass
C8_Witness ==
    /\ runs = 2
    /\ pc = "done"
    /\ jaccard >= 0
    /\ Len(store0) >= 2
    /\ Len(store) > Len(store0)

\* C9: when minhash is about to run every downloaded article has been handed
\* to store_record, and the step of minhash, failed or not, leaves the
\* stored documents and the articles of the run as they are.
C9_PassAfterStoring ==
    [][pc = "minhash"
       => /\ handed = Len(articles)
          /\ store' = store
          /\ articles' = articles
          /\ handed' = handed]_vars

\* minhash failed after the run's only article had been stored
C9_Witness ==
    /\ pc = "crashed"
    /\ raised_by = "minhash"
    /\ Len(articles) = 1
    /\ handed = 1
    /\ store = <<articles[1]>>

=============================================================================
